---- MODULE Spec2Model ----
(***************************************************************************)
(* Model of the speech assembly pipeline of the repository:                *)
(*   svc  = generateSpeech of src/services/geminiService.ts                *)
(*   part = generateSpeech of src/unnamed/part_000                         *)
(* One run of generateSpeech is a sequential process; its position is pc.  *)
(* Every awaited external operation (createWritable, write, seek, close,   *)
(* the synthesis request, the response stream) either returns or throws,   *)
(* chosen by the environment.  The callbacks and the external operations   *)
(* the run performs are recorded, in order, in log.                        *)
(* parseDialogueIntoChunks of both files is modelled line by line in       *)
(* parser, and generateGuidedPrayer of both files, the batch loop that     *)
(* writes the script, in prayer.                                           *)
(***************************************************************************)
EXTENDS Integers, Sequences, FiniteSets, TLC

\* ---------------------------------------------------------------- bounds
MaxBlocks == 2      \* longest segment list handed to the loop
MaxChunks == 2      \* most chunks the response streams of one run yield (svc)
MaxDuration == 21   \* longest prayer asked for, in minutes

\* ------------------------------------------------------ program constants
HeaderLen == 44     \* size of the WAV header block

\* ------------------------------------------------------------------ text
\* Texts are sequences of one-character strings.
WS == {" ", "\n"}
Openers == {"(", "["}
Closers == {")", "]"}

\* number of whitespace characters of t starting at position p
RECURSIVE SpanWS(_, _)
SpanWS(t, p) ==
    IF p <= Len(t) /\ t[p] \in WS THEN 1 + SpanWS(t, p + 1) ELSE 0

\* String.prototype.trim() applied to t yields the empty string
IsBlank(t) == SpanWS(t, 1) = Len(t)

\* positions of closers strictly after position o
ClosersAfter(t, o) == {c \in (o + 1)..Len(t) : t[c] \in Closers}

FirstCloser(t, o) ==
    CHOOSE c \in ClosersAfter(t, o) : \A d \in ClosersAfter(t, o) : c <= d

\* svc: block.text.replace(/^\s*(?:[\(\[].*?[\)\]])\s*/, "")
\* '.' does not match a newline, so the group must close on its own line.
cleanedText(t) ==
    LET o == SpanWS(t, 1) + 1
    IN  IF /\ o <= Len(t)
           /\ t[o] \in Openers
           /\ ClosersAfter(t, o) # {}
           /\ \A k \in (o + 1)..(FirstCloser(t, o) - 1) : t[k] # "\n"
        THEN LET c == FirstCloser(t, o)
             IN  SubSeq(t, c + SpanWS(t, c + 1) + 1, Len(t))
        ELSE t

\* part: one attempt of /^\s*[\(\[][^)\]]*[\)\]]\s*/m at position p;
\* the result is the last position matched, or 0 when there is no match.
MatchEndAt(t, p) ==
    LET o == p + SpanWS(t, p)
    IN  IF /\ (p = 1 \/ t[p - 1] = "\n")
           /\ o <= Len(t)
           /\ t[o] \in Openers
           /\ ClosersAfter(t, o) # {}
        THEN LET c == FirstCloser(t, o) IN c + SpanWS(t, c + 1)
        ELSE 0

\* the last position of the line that holds position p, its newline included
LineEnd(t, p) ==
    CHOOSE e \in p..Len(t) :
        /\ e = Len(t) \/ t[e] = "\n"
        /\ \A r \in p..(e - 1) : t[r] # "\n"

\* the replacement from position p, the start of a line, on: a match is
\* dropped, a line without a match is kept up to the start of the next line
RECURSIVE ReplaceFrom(_, _)
ReplaceFrom(t, p) ==
    IF p > Len(t) THEN <<>>
    ELSE IF MatchEndAt(t, p) # 0 THEN ReplaceFrom(t, MatchEndAt(t, p) + 1)
    ELSE SubSeq(t, p, LineEnd(t, p)) \o ReplaceFrom(t, LineEnd(t, p) + 1)

\* part: text.replace(/^\s*[\(\[][^)\]]*[\)\]]\s*/gm, "")
cleanTextForSpeech(t) == ReplaceFrom(t, 1)

\* ------------------------------------------------------------ percentage
\* Math.round(x) for x = num / den >= 0: floor(x + 1/2)
Round(num, den) == (2 * num + den) \div (2 * den)

\* the percentage taken one block too far
Percent_OffByOne(k, n) == Round((k + 1) * 100, n)

\* Math.round((k / n) * 100)
Percent(k, n) == Round(k * 100, n)

\* --------------------------------------------------------------- inputs
\* Segment texts as the segmenters emit them (trimmed, non-empty).
TPlain == <<"a">>
TDirection == <<"(", "a", ")">>
TDirected == <<"[", "a", "]", " ", "a">>
TBroken == <<"(", "\n", ")">>

\* svc joins continuation lines with a newline, part with a space, so only
\* svc can hand the loop a text that contains a newline.
TextsOf(im) ==
    IF im = "svc" THEN {TPlain, TDirection, TDirected, TBroken}
    ELSE {TPlain, TDirection, TDirected}

SeqsUpTo(S, n) == UNION {[1..k -> S] : k \in 0..n}

\* bytes.length of a decoded payload the service may return
ChunkLens == {1, 2}

\* --------------------------------------------------------------- strings
Uppers ==
    <<"A", "B", "C", "D", "E", "F", "G", "H", "I", "J", "K", "L", "M",
    "N", "O", "P", "Q", "R", "S", "T", "U", "V", "W", "X", "Y", "Z">>
Lowers ==
    <<"a", "b", "c", "d", "e", "f", "g", "h", "i", "j", "k", "l", "m",
    "n", "o", "p", "q", "r", "s", "t", "u", "v", "w", "x", "y", "z">>

Letters == {Uppers[n] : n \in 1..26} \cup {Lowers[n] : n \in 1..26}

\* String.prototype.toLowerCase
toLowerCase(t) ==
    [k \in 1..Len(t) |->
        IF \E n \in 1..26 : Uppers[n] = t[k]
        THEN Lowers[CHOOSE n \in 1..26 : Uppers[n] = t[k]]
        ELSE t[k]]

\* String.prototype.includes
includes(t, sub) ==
    \E p \in 0..(Len(t) - Len(sub)) : SubSeq(t, p + 1, p + Len(sub)) = sub

\* first position from p on whose character is not in S, Len(t) + 1 if none
FirstNotIn(t, p, S) ==
    CHOOSE q \in p..(Len(t) + 1) :
        /\ q = Len(t) + 1 \/ t[q] \notin S
        /\ \A r \in p..(q - 1) : t[r] \in S

\* first position from p on whose character is in S, Len(t) + 1 if none
FirstIn(t, p, S) ==
    CHOOSE q \in p..(Len(t) + 1) :
        /\ q = Len(t) + 1 \/ t[q] \in S
        /\ \A r \in p..(q - 1) : t[r] \notin S

\* last position up to p whose character is not in S, 0 if none
LastNotIn(t, p, S) ==
    CHOOSE q \in 0..p :
        /\ q = 0 \/ t[q] \notin S
        /\ \A r \in (q + 1)..p : t[r] \in S

\* String.prototype.trim
trim(t) ==
    SubSeq(t, FirstNotIn(t, 1, WS), LastNotIn(t, Len(t), WS))

\* the least element of a non-empty set of numbers
Least(S) == CHOOSE k \in S : \A m \in S : k <= m

\* n copies of the character c
Rep(c, n) == [k \in 1..n |-> c]

\* ---------------------------------------------------------------- voices
Narrator ==
    <<"N", "a", "r", "r", "a", "t", "o", "r">>
RobertaErickson ==
    <<"R", "o", "b", "e", "r", "t", "a", " ", "E", "r", "i", "c", "k",
    "s", "o", "n">>
MiltonDilts ==
    <<"M", "i", "l", "t", "o", "n", " ", "D", "i", "l", "t", "s">>
Alice ==
    <<"A", "l", "i", "c", "e">>
roberta ==
    <<"r", "o", "b", "e", "r", "t", "a">>
milton ==
    <<"m", "i", "l", "t", "o", "n">>

\* multiSpeakerConfig: undefined, or { speakers: [{ name, voice }] }
Undefined == [defined |-> FALSE, speakers |-> <<>>]
Config(list) == [defined |-> TRUE, speakers |-> list]
Entry(name, voice) == [name |-> name, voice |-> voice]

\* voiceName with the caller's map consulted before the fixed names
voiceName_MapFirst(speaker, cfg) ==
    LET speakerName == toLowerCase(speaker)
        found == {k \in 1..Len(cfg.speakers) : cfg.speakers[k].name = speaker}
    IN  IF cfg.defined /\ found # {}
        THEN cfg.speakers[Least(found)].voice
        ELSE IF includes(speakerName, roberta) THEN "Aoede"
        ELSE IF includes(speakerName, milton) THEN "Enceladus"
        ELSE "Kore"

\* svc lines 239-248: voiceName for a block of this speaker
voiceName(speaker, cfg) ==
    LET speakerName == toLowerCase(speaker)
        found == {k \in 1..Len(cfg.speakers) : cfg.speakers[k].name = speaker}
    IN  IF includes(speakerName, roberta) THEN "Aoede"
        ELSE IF includes(speakerName, milton) THEN "Enceladus"
        ELSE IF cfg.defined /\ found # {}
             THEN cfg.speakers[Least(found)].voice
        ELSE "Kore"

\* s.name.toLowerCase().split(' ')[0]
firstName(name) ==
    SubSeq(toLowerCase(name), 1, FirstIn(name, 1, {" "}) - 1)

\* part lines 175-182: voiceName for a block of this speaker
partVoiceName(speaker, cfg) ==
    LET speakerMap == {k \in 1..Len(cfg.speakers) :
                          includes(toLowerCase(speaker),
                                   firstName(cfg.speakers[k].name))}
    IN  IF cfg.defined /\ speakerMap # {}
        THEN cfg.speakers[Least(speakerMap)].voice
        ELSE "Aoede"

\* parseDialogueIntoChunks before it is called or when it is not followed
Idle ==
    [text |-> <<>>, lines |-> <<>>, line |-> 0, currentSpeaker |-> <<>>,
     currentBuffer |-> <<>>, blocks |-> <<>>, fallback |-> FALSE]

\* ------------------------------------------------------------- svc parse
MAX_CHAR_LIMIT == 1500
Terminators == {".", "!", "?"}
Quotes == {"\"", "'"}

\* text.split('\n')
split(t) ==
    LET nl == {p \in 1..Len(t) : t[p] = "\n"}
        nth(k) == CHOOSE p \in nl : Cardinality({q \in nl : q <= p}) = k
        from(k) == IF k = 1 THEN 1 ELSE nth(k - 1) + 1
        to(k) == IF k = Cardinality(nl) + 1 THEN Len(t) ELSE nth(k) - 1
    IN  [k \in 1..(Cardinality(nl) + 1) |-> SubSeq(t, from(k), to(k))]

\* line 39: line.match(/^(\*{0,2})([A-Za-z\s]+)(\*{0,2}):\s*(.*)$/), by its
\* groups 2 (name) and 4 (text)
speakerRegex(line) ==
    LET n0 == FirstNotIn(line, 1, {"*"})
        n1 == FirstNotIn(line, n0, Letters \cup WS)
        c == FirstNotIn(line, n1, {"*"})
    IN  IF /\ n0 - 1 <= 2
           /\ n1 > n0
           /\ c - n1 <= 2
           /\ c <= Len(line) /\ line[c] = ":"
        THEN [ok |-> TRUE, name |-> SubSeq(line, n0, n1 - 1),
              text |-> SubSeq(line, FirstNotIn(line, c + 1, WS), Len(line))]
        ELSE [ok |-> FALSE, name |-> <<>>, text |-> <<>>]

\* line 46: the matches of /[^.!?]+[.!?]+["']?|[^.!?]+$/g in t from p on
RECURSIVE SentencesFrom(_, _)
SentencesFrom(t, p) ==
    LET b == FirstNotIn(t, p, Terminators)
        q == FirstIn(t, b, Terminators)
        e == FirstNotIn(t, q, Terminators) - 1
        e2 == IF e < Len(t) /\ t[e + 1] \in Quotes THEN e + 1 ELSE e
    IN  IF p > Len(t) \/ b > Len(t) THEN <<>>
        ELSE IF q > Len(t) THEN <<SubSeq(t, b, Len(t))>>
        ELSE <<SubSeq(t, b, e2)>> \o SentencesFrom(t, e2 + 1)

\* line 46: currentBuffer.match(...) || [currentBuffer]
sentences(t) ==
    IF SentencesFrom(t, 1) = <<>> THEN <<t>> ELSE SentencesFrom(t, 1)

Block(speaker, text) == [speaker |-> speaker, text |-> text]

\* Pack with the sentence appended before the limit is tested
RECURSIVE Pack_AppendThenTest(_, _, _, _, _)
Pack_AppendThenTest(ss, k, tempChunk, speaker, out) ==
    IF k > Len(ss)
    THEN IF trim(tempChunk) # <<>>
         THEN Append(out, Block(speaker, trim(tempChunk)))
         ELSE out
    ELSE IF Len(tempChunk \o ss[k]) > MAX_CHAR_LIMIT
         THEN Pack_AppendThenTest(ss, k + 1, <<>>, speaker,
                   Append(out, Block(speaker, trim(tempChunk \o ss[k]))))
         ELSE Pack_AppendThenTest(ss, k + 1, tempChunk \o ss[k], speaker, out)

\* lines 47-59: the loop over the sentences from the k-th on, then the
\* push of what is left
RECURSIVE Pack(_, _, _, _, _)
Pack(ss, k, tempChunk, speaker, out) ==
    IF k > Len(ss)
    THEN IF trim(tempChunk) # <<>>
         THEN Append(out, Block(speaker, trim(tempChunk)))
         ELSE out
    ELSE IF Len(tempChunk \o ss[k]) > MAX_CHAR_LIMIT
         THEN Pack(ss, k + 1, ss[k], speaker,
                   Append(out, Block(speaker, trim(tempChunk))))
         ELSE Pack(ss, k + 1, tempChunk \o ss[k], speaker, out)

\* lines 41-65: pushBuffer, by the blocks after it
pushBuffer(out, speaker, buffer) ==
    IF trim(buffer) = <<>> THEN out
    ELSE IF Len(buffer) > MAX_CHAR_LIMIT
         THEN Pack(sentences(buffer), 1, <<>>, speaker, out)
         ELSE Append(out, Block(speaker, trim(buffer)))

\* lines 75-79: the speaker for a raw name
speakerFor(rawName) ==
    IF includes(toLowerCase(rawName), roberta) THEN RobertaErickson
    ELSE IF includes(toLowerCase(rawName), milton) THEN MiltonDilts
    ELSE rawName

\* lines 32-36: the call parseDialogueIntoChunks(text) before its loop
Called(t) ==
    [text |-> t, lines |-> split(t), line |-> 0, currentSpeaker |-> Narrator,
     currentBuffer |-> <<>>, blocks |-> <<>>, fallback |-> FALSE]

\* ------------------------------------------------------------ part parse
MAX_CHARS == 1500

\* part line 100: line.match(/^([A-Za-z\u00C0-\u00FF ]+):/i), by its group 1
\* (name) and by what line.replace(speakerRegex, '') leaves (text)
partSpeakerRegex(line) ==
    LET c == FirstNotIn(line, 1, Letters \cup {" "})
    IN  IF c > 1 /\ c <= Len(line) /\ line[c] = ":"
        THEN [ok |-> TRUE, name |-> SubSeq(line, 1, c - 1),
              text |-> SubSeq(line, c + 1, Len(line))]
        ELSE [ok |-> FALSE, name |-> <<>>, text |-> <<>>]

\* part line 131: the matches of /[^.!?]+[.!?]+|[^.!?]+$/g in t from p on
RECURSIVE partSentencesFrom(_, _)
partSentencesFrom(t, p) ==
    LET b == FirstNotIn(t, p, Terminators)
        q == FirstIn(t, b, Terminators)
        e == FirstNotIn(t, q, Terminators) - 1
    IN  IF p > Len(t) \/ b > Len(t) THEN <<>>
        ELSE IF q > Len(t) THEN <<SubSeq(t, b, Len(t))>>
        ELSE <<SubSeq(t, b, e)>> \o partSentencesFrom(t, e + 1)

\* part line 131: chunk.text.match(...) || [chunk.text]
partSentences(t) ==
    IF partSentencesFrom(t, 1) = <<>> THEN <<t>> ELSE partSentencesFrom(t, 1)

\* part lines 132-141: the loop over the sentences from the k-th on, then
\* the push of what is left
RECURSIVE partPack(_, _, _, _, _)
partPack(ss, k, temp, speaker, out) ==
    IF k > Len(ss)
    THEN IF temp # <<>> THEN Append(out, Block(speaker, temp)) ELSE out
    ELSE IF Len(temp \o ss[k]) > MAX_CHARS
         THEN partPack(ss, k + 1, ss[k], speaker,
                       Append(out, Block(speaker, temp)))
         ELSE partPack(ss, k + 1,
                       IF temp # <<>> THEN temp \o <<" ">> \o ss[k] ELSE ss[k],
                       speaker, out)

\* part lines 103-106 and 120-122: push of the buffer when it is not blank
partPush(chunks, speaker, buffer) ==
    IF trim(buffer) # <<>>
    THEN Append(chunks, Block(speaker, trim(buffer)))
    ELSE chunks

\* part lines 125-145: finalChunks for the chunks from the k-th on
RECURSIVE finalChunks(_, _, _)
finalChunks(chunks, k, out) ==
    IF k > Len(chunks) THEN out
    ELSE IF Len(chunks[k].text) > MAX_CHARS
         THEN finalChunks(chunks, k + 1,
                  partPack(partSentences(chunks[k].text), 1, <<>>,
                           chunks[k].speaker, out))
         ELSE finalChunks(chunks, k + 1, Append(out, chunks[k]))

VARIABLES
    impl,             \* which generateSpeech runs: "svc" or "part"
    blocks,           \* parseDialogueIntoChunks(text): the segment texts
    speakers,         \* speakers[k] is the speaker of block k
    multiSpeakerConfig, \* the caller's speaker-to-voice map, or Undefined
    parser,           \* parseDialogueIntoChunks: its input and its locals
    fileHandle,       \* TRUE when the caller supplied a file handle
    pc,               \* position of the run
    i,                \* index of the current block, from 0
    processedBlocks,  \* part: blocks that reached the progress report
    totalSize,        \* svc: bytes accumulated for the final header
    writable,         \* TRUE once createWritable returned a stream
    sink,             \* the file behind the stream
    pending,          \* decoded bytes not yet written or handed over
    chunksSeen,       \* svc: chunks the response streams yielded so far
    inflight,         \* blocks whose request is issued and not yet answered
    log,              \* callbacks and external operations, in order
    prayer            \* generateGuidedPrayer: its input, locals and result

vars == <<impl, blocks, speakers, multiSpeakerConfig, parser, fileHandle, pc,
          i, processedBlocks, totalSize, writable, sink, pending, chunksSeen,
          inflight, log, prayer>>

\* what a run is given and never assigns after the parse
given == <<speakers, multiSpeakerConfig, parser, prayer>>

Ev(e, seg, val) == [e |-> e, seg |-> seg, val |-> val]

Emit(e, seg, val) == log' = Append(log, Ev(e, seg, val))

\* what generateGuidedPrayer settled with: nothing yet, the script it
\* returned, or the error it rejected with
NoResult == [kind |-> "none", value |-> <<>>]

\* generateGuidedPrayer is not running
NoPrayer ==
    [pc |-> "idle", duration |-> 0, numBatches |-> 0, i |-> 0,
     fullScript |-> <<>>, previousContext |-> <<>>, result |-> NoResult,
     log |-> <<>>]

Max(a, b) == IF a >= b THEN a ELSE b

\* src/utils/audio createWavHeader(dataLength, numChannels, sampleRate,
\* bitsPerSample): the header block, by the fields it encodes
createWavHeader(dataLength, numChannels, sampleRate, bitsPerSample) ==
    [payload |-> dataLength, channels |-> numChannels,
     sampleRate |-> sampleRate, bitsPerSample |-> bitsPerSample]

NoHeader == createWavHeader(-1, 0, 0, 0)
ClobberedHeader == createWavHeader(-2, 0, 0, 0)

\* FileSystemWritableFileStream.write(header block) at the cursor
SinkWriteHeader(s, hdr) ==
    IF s.cursor = 0
    THEN [s EXCEPT !.header = hdr, !.len = Max(s.len, HeaderLen),
                   !.cursor = HeaderLen]
    ELSE [s EXCEPT !.len = Max(s.len, s.cursor + HeaderLen),
                   !.cursor = s.cursor + HeaderLen]

\* FileSystemWritableFileStream.write(bytes) at the cursor, n = bytes.length
SinkWriteBytes(s, n) ==
    [s EXCEPT !.len = Max(s.len, s.cursor + n),
              !.cursor = s.cursor + n,
              !.header = IF s.header # NoHeader /\ s.cursor < HeaderLen
                         THEN ClobberedHeader ELSE s.header]

Init ==
    /\ impl \in {"svc", "part"}
    /\ blocks \in SeqsUpTo(TextsOf(impl), MaxBlocks)
    /\ speakers = [k \in 1..Len(blocks) |-> Narrator]
    /\ multiSpeakerConfig = Undefined
    /\ parser = Idle
    /\ fileHandle \in BOOLEAN
    /\ pc = "start"
    /\ i = 0
    /\ processedBlocks = 0
    /\ totalSize = 0
    /\ writable = FALSE
    /\ sink = [state |-> "unopened", cursor |-> 0, header |-> NoHeader, len |-> 0]
    /\ pending = 0
    /\ chunksSeen = 0
    /\ inflight = {}
    /\ log = <<>>
    /\ prayer = NoPrayer

\* ===================================================================== svc
\* lines 208-224: parse, then open the writer when a handle was given
SvcStart ==
    /\ impl = "svc" /\ pc = "start"
    /\ IF fileHandle
       THEN \/ /\ writable' = TRUE
               /\ sink' = [sink EXCEPT !.state = "open"]
               /\ pc' = "placeholder"
               /\ UNCHANGED log
            \/ /\ Emit("openFail", -1, 0)
               /\ pc' = "catch"
               /\ UNCHANGED <<writable, sink>>
       ELSE /\ pc' = "loop"
            /\ UNCHANGED <<writable, sink, log>>
    /\ UNCHANGED <<inflight, impl, blocks, given, fileHandle, i, processedBlocks, totalSize,
                   pending, chunksSeen>>

\* SvcPlaceholder with a failed header write ignored
SvcPlaceholder_IgnoresFailure ==
    /\ impl = "svc" /\ pc = "placeholder"
    /\ \/ /\ sink.state = "open"
          /\ sink' = SinkWriteHeader(sink, createWavHeader(0, 1, 24000, 16))
          /\ Emit("header", -1, 0)
          /\ pc' = "loop"
       \/ /\ Emit("openFail", -1, 0)
          /\ pc' = "loop"
          /\ UNCHANGED sink
    /\ UNCHANGED <<inflight, impl, blocks, given, fileHandle, i, processedBlocks, totalSize,
                   writable, pending, chunksSeen>>

\* lines 221-223: placeholder header createWavHeader(0, ...)
SvcPlaceholder ==
    /\ impl = "svc" /\ pc = "placeholder"
    /\ \/ /\ sink.state = "open"
          /\ sink' = SinkWriteHeader(sink, createWavHeader(0, 1, 24000, 16))
          /\ Emit("header", -1, 0)
          /\ pc' = "loop"
       \/ /\ Emit("openFail", -1, 0)
          /\ pc' = "catch"
          /\ UNCHANGED sink
    /\ UNCHANGED <<inflight, impl, blocks, given, fileHandle, i, processedBlocks, totalSize,
                   writable, pending, chunksSeen>>

\* lines 227-236: loop test, stage-direction strip, blank skip
SvcLoop ==
    /\ impl = "svc" /\ pc = "loop"
    /\ IF i < Len(blocks)
       THEN IF IsBlank(cleanedText(blocks[i + 1]))
            THEN /\ i' = i + 1
                 /\ pc' = "loop"
            ELSE /\ pc' = "request"
                 /\ UNCHANGED i
       ELSE /\ pc' = IF writable THEN "seek" ELSE "complete"
            /\ UNCHANGED i
    /\ UNCHANGED <<inflight, impl, blocks, given, fileHandle, processedBlocks, totalSize,
                   writable, sink, pending, chunksSeen, log>>

\* lines 238-264: the request ai.models.generateContentStream(...) is sent
SvcRequest ==
    /\ impl = "svc" /\ pc = "request"
    /\ Emit("request", i, voiceName(speakers[i + 1], multiSpeakerConfig))
    /\ inflight' = inflight \cup {i}
    /\ pc' = "await"
    /\ UNCHANGED <<impl, blocks, given, fileHandle, i, processedBlocks, totalSize,
                   writable, sink, pending, chunksSeen>>

\* line 260: the awaited call returns the response stream, or throws
SvcResponse ==
    /\ impl = "svc" /\ pc = "await"
    /\ \/ /\ pc' = "stream"
          /\ UNCHANGED <<inflight, log>>
       \/ /\ Emit("synthFail", i, 0)
          /\ inflight' = inflight \ {i}
          /\ pc' = "catch"
    /\ UNCHANGED <<impl, blocks, given, fileHandle, i, processedBlocks, totalSize,
                   writable, sink, pending, chunksSeen>>

\* SvcStream with the sink write started and not awaited
SvcStream_WriteNotAwaited ==
    /\ impl = "svc" /\ pc = "stream"
    /\ \/ /\ pc' = "progress"
          /\ inflight' = inflight \ {i}
          /\ UNCHANGED <<chunksSeen, pending, totalSize, log>>
       \/ /\ chunksSeen < MaxChunks
          /\ chunksSeen' = chunksSeen + 1
          /\ pc' = "stream"
          /\ UNCHANGED <<pending, totalSize, inflight, log>>
       \/ /\ chunksSeen < MaxChunks
          /\ chunksSeen' = chunksSeen + 1
          /\ UNCHANGED inflight
          /\ \E n \in ChunkLens :
               IF writable
               THEN /\ pending' = n
                    /\ pc' = "stream"
                    /\ Emit("audio", i, n)
                    /\ totalSize' = totalSize + n
               ELSE /\ log' = log \o <<Ev("audio", i, n), Ev("onChunk", i, n)>>
                    /\ totalSize' = totalSize + n
                    /\ pc' = "stream"
                    /\ UNCHANGED pending
       \/ /\ Emit("synthFail", i, 0)
          /\ inflight' = inflight \ {i}
          /\ pc' = "catch"
          /\ UNCHANGED <<chunksSeen, pending, totalSize>>
    /\ UNCHANGED <<impl, blocks, given, fileHandle, i, processedBlocks, writable,
                   sink>>

\* SvcStream with the payload handed to onChunk whether or not a writer exists
SvcStream_AlwaysOnChunk ==
    /\ impl = "svc" /\ pc = "stream"
    /\ \/ /\ pc' = "progress"
          /\ inflight' = inflight \ {i}
          /\ UNCHANGED <<chunksSeen, pending, totalSize, log>>
       \/ /\ chunksSeen < MaxChunks
          /\ chunksSeen' = chunksSeen + 1
          /\ pc' = "stream"
          /\ UNCHANGED <<pending, totalSize, inflight, log>>
       \/ /\ chunksSeen < MaxChunks
          /\ chunksSeen' = chunksSeen + 1
          /\ UNCHANGED inflight
          /\ \E n \in ChunkLens :
               /\ log' = log \o <<Ev("audio", i, n), Ev("onChunk", i, n)>>
               /\ totalSize' = totalSize + n
               /\ pc' = "stream"
               /\ UNCHANGED pending
       \/ /\ Emit("synthFail", i, 0)
          /\ inflight' = inflight \ {i}
          /\ pc' = "catch"
          /\ UNCHANGED <<chunksSeen, pending, totalSize>>
    /\ UNCHANGED <<impl, blocks, given, fileHandle, i, processedBlocks, writable,
                   sink>>

\* lines 266-285 without a writer: next chunk of the stream, onChunk
\* lines 266-275 with a writer: next chunk of the stream, decoded
SvcStream ==
    /\ impl = "svc" /\ pc = "stream"
    /\ \/ \* the stream ends
          /\ pc' = "progress"
          /\ inflight' = inflight \ {i}
          /\ UNCHANGED <<chunksSeen, pending, totalSize, log>>
       \/ \* a chunk without inlineData
          /\ chunksSeen < MaxChunks
          /\ chunksSeen' = chunksSeen + 1
          /\ pc' = "stream"
          /\ UNCHANGED <<pending, totalSize, inflight, log>>
       \/ \* a chunk with base64 audio of n bytes
          /\ chunksSeen < MaxChunks
          /\ chunksSeen' = chunksSeen + 1
          /\ UNCHANGED inflight
          /\ \E n \in ChunkLens :
               IF writable
               THEN /\ pending' = n
                    /\ pc' = "write"
                    /\ Emit("audio", i, n)
                    /\ UNCHANGED totalSize
               ELSE /\ log' = log \o <<Ev("audio", i, n), Ev("onChunk", i, n)>>
                    /\ totalSize' = totalSize + n
                    /\ pc' = "stream"
                    /\ UNCHANGED pending
       \/ \* the stream throws
          /\ Emit("synthFail", i, 0)
          /\ inflight' = inflight \ {i}
          /\ pc' = "catch"
          /\ UNCHANGED <<chunksSeen, pending, totalSize>>
    /\ UNCHANGED <<impl, blocks, given, fileHandle, i, processedBlocks, writable,
                   sink>>

\* SvcWrite with totalSize counting payloads instead of bytes
SvcWrite_CountsChunks ==
    /\ impl = "svc" /\ pc = "write"
    /\ \/ /\ sink.state = "open"
          /\ sink' = SinkWriteBytes(sink, pending)
          /\ Emit("write", i, pending)
          /\ totalSize' = totalSize + 1
          /\ pc' = "stream"
       \/ /\ Emit("writeFail", i, pending)
          /\ pc' = "catch"
          /\ UNCHANGED <<sink, totalSize>>
    /\ pending' = 0
    /\ UNCHANGED <<inflight, impl, blocks, given, fileHandle, i, processedBlocks,
                   writable, chunksSeen>>

\* lines 277-284: await writable.write(bytes); totalSize += bytes.length
SvcWrite ==
    /\ impl = "svc" /\ pc = "write"
    /\ \/ /\ sink.state = "open"
          /\ sink' = SinkWriteBytes(sink, pending)
          /\ Emit("write", i, pending)
          /\ totalSize' = totalSize + pending
          /\ pc' = "stream"
       \/ /\ Emit("writeFail", i, pending)
          /\ pc' = "catch"
          /\ UNCHANGED <<sink, totalSize>>
    /\ pending' = 0
    /\ UNCHANGED <<inflight, impl, blocks, given, fileHandle, i, processedBlocks, writable,
                   chunksSeen>>

\* line 289: callbacks.onProgress(Math.round(((i + 1) / blocks.length) * 100))
SvcProgress ==
    /\ impl = "svc" /\ pc = "progress"
    /\ Emit("onProgress", i, Percent(i + 1, Len(blocks)))
    /\ pc' = "delay"
    /\ UNCHANGED <<inflight, impl, blocks, given, fileHandle, i, processedBlocks, totalSize,
                   writable, sink, pending, chunksSeen>>

\* line 292 and the loop increment: await delay(500); i++
SvcDelay ==
    /\ impl = "svc" /\ pc = "delay"
    /\ Emit("delay", i, 0)
    /\ i' = i + 1
    /\ pc' = "loop"
    /\ UNCHANGED <<inflight, impl, blocks, given, fileHandle, processedBlocks, totalSize,
                   writable, sink, pending, chunksSeen>>

\* SvcSeek left out: the final header is written where the cursor stands
SvcSeek_Skipped ==
    /\ impl = "svc" /\ pc = "seek"
    /\ pc' = "header"
    /\ UNCHANGED <<inflight, impl, blocks, given, fileHandle, i, processedBlocks,
                   totalSize, writable, sink, pending, chunksSeen, log>>

\* SvcSeek without the inner try: a seek that throws reaches the outer catch
SvcSeek_Uncaught ==
    /\ impl = "svc" /\ pc = "seek"
    /\ \/ /\ sink.state = "open"
          /\ sink' = [sink EXCEPT !.cursor = 0]
          /\ Emit("seek", -1, 0)
          /\ pc' = "header"
       \/ /\ Emit("headerFail", -1, 0)
          /\ pc' = "catch"
          /\ UNCHANGED sink
    /\ UNCHANGED <<inflight, impl, blocks, given, fileHandle, i, processedBlocks,
                   totalSize, writable, pending, chunksSeen>>

\* lines 298-300 and 302-304: createWavHeader(totalSize, ...); seek(0)
SvcSeek ==
    /\ impl = "svc" /\ pc = "seek"
    /\ \/ /\ sink.state = "open"
          /\ sink' = [sink EXCEPT !.cursor = 0]
          /\ Emit("seek", -1, 0)
          /\ pc' = "header"
       \/ /\ Emit("headerFail", -1, 0)
          /\ pc' = "close"
          /\ UNCHANGED sink
    /\ UNCHANGED <<inflight, impl, blocks, given, fileHandle, i, processedBlocks, totalSize,
                   writable, pending, chunksSeen>>

\* lines 301-304: await writable.write(header), failure only warned about
SvcHeader ==
    /\ impl = "svc" /\ pc = "header"
    /\ \/ /\ sink.state = "open"
          /\ sink' = SinkWriteHeader(sink,
                                      createWavHeader(totalSize, 1, 24000, 16))
          /\ Emit("header", -1, totalSize)
       \/ /\ Emit("headerFail", -1, 0)
          /\ UNCHANGED sink
    /\ pc' = "close"
    /\ UNCHANGED <<inflight, impl, blocks, given, fileHandle, i, processedBlocks, totalSize,
                   writable, pending, chunksSeen>>

\* line 305: await writable.close()
SvcClose ==
    /\ impl = "svc" /\ pc = "close"
    /\ \/ /\ sink.state = "open"
          /\ sink' = [sink EXCEPT !.state = "closed"]
          /\ Emit("close", -1, 0)
          /\ pc' = "complete"
       \/ /\ Emit("closeFail", -1, 0)
          /\ pc' = "catch"
          /\ UNCHANGED sink
    /\ UNCHANGED <<inflight, impl, blocks, given, fileHandle, i, processedBlocks, totalSize,
                   writable, pending, chunksSeen>>

\* line 308: callbacks.onComplete()
SvcComplete ==
    /\ impl = "svc" /\ pc = "complete"
    /\ Emit("onComplete", -1, 0)
    /\ pc' = "done"
    /\ UNCHANGED <<inflight, impl, blocks, given, fileHandle, i, processedBlocks, totalSize,
                   writable, sink, pending, chunksSeen>>

\* SvcCatch falling through to the completion report
SvcCatch_FallThrough ==
    /\ impl = "svc" /\ pc = "catch"
    /\ Emit("onError", IF i < Len(blocks) THEN i ELSE -1, 0)
    /\ pc' = "complete"
    /\ UNCHANGED <<inflight, impl, blocks, given, fileHandle, i, processedBlocks,
                   totalSize, writable, sink, pending, chunksSeen>>

\* lines 310-312: the catch of the outer try
SvcCatch ==
    /\ impl = "svc" /\ pc = "catch"
    /\ Emit("onError", IF i < Len(blocks) THEN i ELSE -1, 0)
    /\ pc' = "done"
    /\ UNCHANGED <<inflight, impl, blocks, given, fileHandle, i, processedBlocks, totalSize,
                   writable, sink, pending, chunksSeen>>

SvcNext ==
    \/ SvcStart \/ SvcPlaceholder \/ SvcLoop \/ SvcRequest \/ SvcResponse
    \/ SvcStream
    \/ SvcWrite \/ SvcProgress \/ SvcDelay \/ SvcSeek \/ SvcHeader
    \/ SvcClose \/ SvcComplete \/ SvcCatch

\* ==================================================================== part
\* src/utils/opfsUtils writeChunkToStream(writable, bytes): appends the
\* bytes at the cursor of the stream
writeChunkToStream(s, n) == SinkWriteBytes(s, n)

\* lines 161-170: parse, then open the writer when a handle was given;
\* createWritable is outside every try, so its failure rejects the promise
PartStart ==
    /\ impl = "part" /\ pc = "start"
    /\ IF fileHandle
       THEN \/ /\ writable' = TRUE
               /\ sink' = [sink EXCEPT !.state = "open"]
               /\ pc' = "loop"
               /\ UNCHANGED log
            \/ /\ Emit("openFail", -1, 0)
               /\ pc' = "rejected"
               /\ UNCHANGED <<writable, sink>>
       ELSE /\ pc' = "loop"
            /\ UNCHANGED <<writable, sink, log>>
    /\ UNCHANGED <<inflight, impl, blocks, given, fileHandle, i, processedBlocks, totalSize,
                   pending, chunksSeen>>

\* lines 172-185 and 230-234: next block, stage-direction strip, blank skip
PartLoop ==
    /\ impl = "part" /\ pc = "loop"
    /\ IF i < Len(blocks)
       THEN IF IsBlank(cleanTextForSpeech(blocks[i + 1]))
            THEN /\ i' = i + 1
                 /\ pc' = "loop"
            ELSE /\ pc' = "request"
                 /\ UNCHANGED i
       ELSE /\ pc' = IF writable THEN "close" ELSE "complete"
            /\ UNCHANGED i
    /\ UNCHANGED <<inflight, impl, blocks, given, fileHandle, processedBlocks, totalSize,
                   writable, sink, pending, chunksSeen, log>>

\* lines 174-196: the request ai.models.generateContent(...) is sent
PartRequest ==
    /\ impl = "part" /\ pc = "request"
    /\ Emit("request", i,
            partVoiceName(speakers[i + 1], multiSpeakerConfig))
    /\ inflight' = inflight \cup {i}
    /\ pc' = "await"
    /\ UNCHANGED <<impl, blocks, given, fileHandle, i, processedBlocks, totalSize,
                   writable, sink, pending, chunksSeen>>

\* lines 187-213: the awaited call returns or throws; decode, hand over
PartResponse ==
    /\ impl = "part" /\ pc = "await"
    /\ inflight' = inflight \ {i}
    /\ \/ \* the call throws
          /\ Emit("synthFail", i, 0)
          /\ pc' = "blockCatch"
          /\ UNCHANGED pending
       \/ \* a response without inlineData
          /\ pc' = "progress"
          /\ UNCHANGED <<pending, log>>
       \/ \* a response with base64 audio of n bytes
          \E n \in ChunkLens :
            IF writable
            THEN /\ Emit("audio", i, n)
                 /\ pending' = n
                 /\ pc' = "write"
            ELSE /\ log' = log \o <<Ev("audio", i, n), Ev("onChunk", i, n)>>
                 /\ pc' = "progress"
                 /\ UNCHANGED pending
    /\ UNCHANGED <<impl, blocks, given, fileHandle, i, processedBlocks, totalSize,
                   writable, sink, chunksSeen>>

\* lines 208-209: await writeChunkToStream(writable, bytes)
PartWrite ==
    /\ impl = "part" /\ pc = "write"
    /\ \/ /\ sink.state = "open"
          /\ sink' = writeChunkToStream(sink, pending)
          /\ Emit("write", i, pending)
          /\ pc' = "progress"
       \/ /\ Emit("writeFail", i, pending)
          /\ pc' = "blockCatch"
          /\ UNCHANGED sink
    /\ pending' = 0
    /\ UNCHANGED <<inflight, impl, blocks, given, fileHandle, i, processedBlocks, totalSize,
                   writable, chunksSeen>>

\* lines 215-218: processedBlocks++; onProgress(round(processed/total*100))
PartProgress ==
    /\ impl = "part" /\ pc = "progress"
    /\ processedBlocks' = processedBlocks + 1
    /\ Emit("onProgress", i, Percent(processedBlocks + 1, Len(blocks)))
    /\ pc' = "delay"
    /\ UNCHANGED <<inflight, impl, blocks, given, fileHandle, i, totalSize, writable, sink,
                   pending, chunksSeen>>

\* line 221 and the loop step: await setTimeout 100; next block
PartDelay ==
    /\ impl = "part" /\ pc = "delay"
    /\ Emit("delay", i, 0)
    /\ i' = i + 1
    /\ pc' = "loop"
    /\ UNCHANGED <<inflight, impl, blocks, given, fileHandle, processedBlocks, totalSize,
                   writable, sink, pending, chunksSeen>>

\* PartBlockCatch leaving the loop instead of going on
PartBlockCatch_Abort ==
    /\ impl = "part" /\ pc = "blockCatch"
    /\ Emit("onError", i, processedBlocks + 1)
    /\ i' = Len(blocks)
    /\ pc' = "loop"
    /\ UNCHANGED <<inflight, impl, blocks, given, fileHandle, processedBlocks,
                   totalSize, writable, sink, pending, chunksSeen>>

\* lines 223-227: the catch of the per-block try; the loop goes on
PartBlockCatch ==
    /\ impl = "part" /\ pc = "blockCatch"
    /\ Emit("onError", i, processedBlocks + 1)
    /\ i' = i + 1
    /\ pc' = "loop"
    /\ UNCHANGED <<inflight, impl, blocks, given, fileHandle, processedBlocks, totalSize,
                   writable, sink, pending, chunksSeen>>

\* lines 230-232: await writable.close(), outside every try
PartClose ==
    /\ impl = "part" /\ pc = "close"
    /\ \/ /\ sink.state = "open"
          /\ sink' = [sink EXCEPT !.state = "closed"]
          /\ Emit("close", -1, 0)
          /\ pc' = "complete"
       \/ /\ Emit("closeFail", -1, 0)
          /\ pc' = "rejected"
          /\ UNCHANGED sink
    /\ UNCHANGED <<inflight, impl, blocks, given, fileHandle, i, processedBlocks, totalSize,
                   writable, pending, chunksSeen>>

\* line 234: callbacks.onComplete()
PartComplete ==
    /\ impl = "part" /\ pc = "complete"
    /\ Emit("onComplete", -1, 0)
    /\ pc' = "done"
    /\ UNCHANGED <<inflight, impl, blocks, given, fileHandle, i, processedBlocks, totalSize,
                   writable, sink, pending, chunksSeen>>

PartNext ==
    \/ PartStart \/ PartLoop \/ PartRequest \/ PartResponse \/ PartWrite
    \/ PartProgress
    \/ PartDelay \/ PartBlockCatch \/ PartClose \/ PartComplete

Next == SvcNext \/ PartNext

Spec == Init /\ [][Next]_vars

\* ============================================================== svc parse
\* Scripts handed to generateSpeech.
\* two speakers, one line each
TDialogue ==
    <<"A", "l", "i", "c", "e", ":", " ", "H", "e", "l", "l", "o", " ", "t",
      "h", "e", "r", "e", ".", "\n", "B", "o", "b", ":", " ", "H", "i",
      " ", "A", "l", "i", "c", "e", "!">>
\* a stage direction before the speaker prefix
TSoftly ==
    <<"(", "s", "o", "f", "t", "l", "y", ")", " ", "R", "o", "b", "e", "r",
      "t", "a", " ", "E", "r", "i", "c", "k", "s", "o", "n", ":", " ", "P",
      "e", "a", "c", "e", " ", "b", "e", " ", "w", "i", "t", "h", " ", "y",
      "o", "u", ".">>
\* a bracketed direction before the first speaker prefix
TPause ==
    <<"[", "P", "a", "u", "s", "e", "]", " ", "M", "i", "l", "t", "o", "n",
      ":", " ", "R", "e", "s", "t", ".", "\n", "A", "l", "i", "c", "e",
      ":", " ", "Y", "e", "s", ".">>
\* no speaker prefix at all
TProse ==
    <<"H", "e", "l", "l", "o", ".">>
\* only whitespace before the colon
TBlankName ==
    <<" ", ":", " ", "h", "i">>
\* asterisks around the name, a continuation line, a blank line
TStarred ==
    <<"*", "*", "R", "o", "b", "e", "r", "t", "a", "*", "*", ":", " ", "H",
      "i", "\n", " ", " ", "t", "h", "e", "r", "e", "\n", "\n", "M", "i",
      "l", "t", "o", "n", " ", "D", "i", "l", "t", "s", ":", " ", "(", "a",
      ")">>
\* text before the first speaker prefix
TIntro ==
    <<"B", "e", " ", "s", "t", "i", "l", "l", ".", "\n", "A", "l", "i",
      "c", "e", ":", " ", "H", "i">>
\* a speaker prefix with nothing after it
TNameOnly ==
    <<"A", "l", "i", "c", "e", ":">>
\* the empty script
TEmpty == <<>>

\* a sentence of n characters: n - 1 letters and a full stop
Sentence(n) == Rep("a", n - 1) \o <<".">>

AlicePrefix == <<"A", "l", "i", "c", "e", ":", " ">>

\* a monologue of three sentences that together exceed the limit
TMonologue ==
    AlicePrefix \o Sentence(700) \o <<" ">> \o Sentence(700) \o <<" ">>
        \o Sentence(700)

\* one unbroken run of letters longer than the limit
TUnbroken == AlicePrefix \o Rep("a", MAX_CHAR_LIMIT + 1)

\* a buffer of exactly MAX_CHAR_LIMIT characters, the space appended to the
\* text of the line included
TAtLimit == AlicePrefix \o Rep("a", MAX_CHAR_LIMIT - 1)

\* two sentences that together have exactly MAX_CHAR_LIMIT characters, and
\* a short third one
TPacked ==
    AlicePrefix \o Sentence(MAX_CHAR_LIMIT \div 2)
        \o Sentence(MAX_CHAR_LIMIT \div 2) \o Sentence(2)

\* a long speech that opens with an ellipsis
TEllipsis ==
    AlicePrefix \o <<".", ".", ".">> \o Sentence(11) \o <<" ">>
        \o Sentence(MAX_CHAR_LIMIT - 4)

ParseTexts ==
    {TDialogue, TSoftly, TPause, TProse, TBlankName, TStarred, TIntro,
     TNameOnly, TEmpty, TMonologue, TUnbroken, TAtLimit, TPacked, TEllipsis}

ParseConfigs ==
    {Undefined, Config(<<Entry(Alice, "Puck"), Entry(Narrator, "Charon")>>)}

InitParse ==
    /\ impl = "svc"
    /\ parser \in {Called(t) : t \in ParseTexts}
    /\ blocks = <<>>
    /\ speakers = <<>>
    /\ multiSpeakerConfig \in ParseConfigs
    /\ fileHandle \in BOOLEAN
    /\ pc = "parse"
    /\ i = 0
    /\ processedBlocks = 0
    /\ totalSize = 0
    /\ writable = FALSE
    /\ sink = [state |-> "unopened", cursor |-> 0, header |-> NoHeader, len |-> 0]
    /\ pending = 0
    /\ chunksSeen = 0
    /\ inflight = {}
    /\ log = <<>>
    /\ prayer = NoPrayer

\* lines 67-87: one turn of the loop over the lines
SvcParseLine ==
    /\ impl = "svc" /\ pc = "parse"
    /\ parser.line < Len(parser.lines)
    /\ LET line == parser.lines[parser.line + 1]
           match == speakerRegex(line)
       IN  parser' =
             IF match.ok
             THEN [parser EXCEPT
                     !.line = @ + 1,
                     !.blocks = pushBuffer(@, parser.currentSpeaker,
                                           parser.currentBuffer),
                     !.currentSpeaker = speakerFor(trim(match.name)),
                     !.currentBuffer = match.text \o <<" ">>]
             ELSE IF trim(line) # <<>>
             THEN [parser EXCEPT
                     !.line = @ + 1,
                     !.currentBuffer = @ \o trim(line) \o <<"\n">>]
             ELSE [parser EXCEPT !.line = @ + 1]
    /\ UNCHANGED <<impl, blocks, speakers, multiSpeakerConfig, fileHandle, pc,
                   i, processedBlocks, totalSize, writable, sink, pending,
                   chunksSeen, inflight, log, prayer>>

\* lines 88-96 and 212: the last push, the Narrator fallback, the return to
\* generateSpeech; the locals of the call are gone
SvcParseReturn ==
    /\ impl = "svc" /\ pc = "parse"
    /\ parser.line = Len(parser.lines)
    /\ LET pushed == pushBuffer(parser.blocks, parser.currentSpeaker,
                                parser.currentBuffer)
           fallback == Len(pushed) = 0 /\ Len(trim(parser.text)) > 0
           out == IF fallback
                  THEN pushBuffer(pushed, Narrator, parser.text)
                  ELSE pushed
       IN  /\ parser' = [parser EXCEPT !.blocks = out, !.lines = <<>>,
                                       !.currentBuffer = <<>>,
                                       !.fallback = fallback]
           /\ blocks' = [k \in 1..Len(out) |-> out[k].text]
           /\ speakers' = [k \in 1..Len(out) |-> out[k].speaker]
    /\ pc' = "start"
    /\ UNCHANGED <<impl, multiSpeakerConfig, fileHandle, i, processedBlocks,
                   totalSize, writable, sink, pending, chunksSeen, inflight,
                   log, prayer>>

ParseNext == SvcParseLine \/ SvcParseReturn \/ SvcNext

ParseSpec == InitParse /\ [][ParseNext]_vars

\* ============================================================= part parse
InitPartParse ==
    /\ impl = "part"
    /\ parser \in {Called(t) : t \in ParseTexts}
    /\ blocks = <<>>
    /\ speakers = <<>>
    /\ multiSpeakerConfig \in ParseConfigs
    /\ fileHandle \in BOOLEAN
    /\ pc = "parse"
    /\ i = 0
    /\ processedBlocks = 0
    /\ totalSize = 0
    /\ writable = FALSE
    /\ sink = [state |-> "unopened", cursor |-> 0, header |-> NoHeader, len |-> 0]
    /\ pending = 0
    /\ chunksSeen = 0
    /\ inflight = {}
    /\ log = <<>>
    /\ prayer = NoPrayer

\* part lines 102-118: one turn of the loop over the lines
PartParseLine ==
    /\ impl = "part" /\ pc = "parse"
    /\ parser.line < Len(parser.lines)
    /\ LET line == parser.lines[parser.line + 1]
           match == partSpeakerRegex(line)
       IN  parser' =
             IF match.ok
             THEN [parser EXCEPT
                     !.line = @ + 1,
                     !.blocks = partPush(@, parser.currentSpeaker,
                                         parser.currentBuffer),
                     !.currentSpeaker = trim(match.name),
                     !.currentBuffer = trim(match.text)]
             ELSE IF trim(line) # <<>>
             THEN [parser EXCEPT
                     !.line = @ + 1,
                     !.currentBuffer = @ \o <<" ">> \o trim(line)]
             ELSE [parser EXCEPT !.line = @ + 1]
    /\ UNCHANGED <<impl, blocks, speakers, multiSpeakerConfig, fileHandle, pc,
                   i, processedBlocks, totalSize, writable, sink, pending,
                   chunksSeen, inflight, log, prayer>>

\* part lines 119-147 and 162: the last push, the split of long chunks, the
\* return to generateSpeech; the locals of the call are gone
PartParseReturn ==
    /\ impl = "part" /\ pc = "parse"
    /\ parser.line = Len(parser.lines)
    /\ LET chunks == partPush(parser.blocks, parser.currentSpeaker,
                              parser.currentBuffer)
           out == finalChunks(chunks, 1, <<>>)
       IN  /\ parser' = [parser EXCEPT !.blocks = out, !.lines = <<>>,
                                       !.currentBuffer = <<>>]
           /\ blocks' = [k \in 1..Len(out) |-> out[k].text]
           /\ speakers' = [k \in 1..Len(out) |-> out[k].speaker]
    /\ pc' = "start"
    /\ UNCHANGED <<impl, multiSpeakerConfig, fileHandle, i, processedBlocks,
                   totalSize, writable, sink, pending, chunksSeen, inflight,
                   log, prayer>>

PartParseNext == PartParseLine \/ PartParseReturn \/ PartNext

PartParseSpec == InitPartParse /\ [][PartParseNext]_vars

\* ================================================================== voices
\* Runs over one segment, for every speaker and every map: the voice of a
\* segment depends on its own speaker and the map only.
VoiceSpeakers == {Narrator, RobertaErickson, MiltonDilts, Alice}

VoiceConfigs ==
    {Undefined,
     Config(<<Entry(RobertaErickson, "Puck"), Entry(MiltonDilts, "Charon"),
              Entry(Alice, "Fenrir")>>),
     Config(<<Entry(Alice, "Puck"), Entry(Alice, "Charon")>>),
     Config(<<Entry(Narrator, "Puck")>>)}

InitVoice ==
    /\ impl \in {"svc", "part"}
    /\ blocks \in [1..1 -> TextsOf(impl)]
    /\ speakers \in [1..1 -> VoiceSpeakers]
    /\ multiSpeakerConfig \in VoiceConfigs
    /\ parser = Idle
    /\ fileHandle \in BOOLEAN
    /\ pc = "start"
    /\ i = 0
    /\ processedBlocks = 0
    /\ totalSize = 0
    /\ writable = FALSE
    /\ sink = [state |-> "unopened", cursor |-> 0, header |-> NoHeader, len |-> 0]
    /\ pending = 0
    /\ chunksSeen = 0
    /\ inflight = {}
    /\ log = <<>>
    /\ prayer = NoPrayer

VoiceSpec == InitVoice /\ [][Next]_vars

\* ================================================================== caller
\* While a run is in progress the owner of the file handle closes the sink
\* under it; every later operation on the stream throws.
CallerClosesSink ==
    /\ pc \notin {"done", "rejected"}
    /\ sink.state = "open"
    /\ sink' = [sink EXCEPT !.state = "closed"]
    /\ Emit("callerClose", -1, 0)
    /\ UNCHANGED <<impl, blocks, given, fileHandle, pc, i, processedBlocks, totalSize,
                   writable, pending, chunksSeen, inflight>>

CancelSpec == Init /\ [][Next \/ CallerClosesSink]_vars

\* ================================================================== prayer
\* generateGuidedPrayer(prompt, language, duration) of both files.  The
\* record prayer holds the call: duration, numBatches (part: numIterations),
\* the loop variable i (svc counts from 1, part from 0), fullScript (part:
\* fullPrayer), previousContext (part: lastContext), the value or error the
\* call settled with, and in log the requests, responses and failures in
\* order, each with the ordinal of its batch counted from 1.

chunkSizeMinutes == 7

\* Math.ceil(duration / chunkSizeMinutes) for a whole number of minutes
ceilDiv(a, b) == (a + b - 1) \div b

\* t.substring(t.length - n) when t is longer than n, t.slice(-n)
lastChars(t, n) == IF Len(t) > n THEN SubSeq(t, Len(t) - n + 1, Len(t)) ELSE t

Dots(t) == {p \in 1..Len(t) : t[p] = "."}

\* svc 165-167: text.split('.').slice(-3).join('.'), cut to its last 500
\* characters
contextOf(text) ==
    LET last3 ==
          IF Cardinality(Dots(text)) < 3 THEN text
          ELSE LET d == CHOOSE p \in Dots(text) :
                          Cardinality({q \in Dots(text) : q > p}) = 2
               IN  SubSeq(text, d + 1, Len(text))
    IN  lastChars(last3, 500)

\* what a response carries in response.text: nothing, four short sentences,
\* one long sentence
ReplyShort ==
    <<"b", ".", " ", "c", ".", " ", "d", ".", " ", "e", ".">>

ReplyLong == Sentence(600)

Replies == {<<>>, ReplyShort, ReplyLong}

Durations == 1..MaxDuration

Asked(which, duration) ==
    [pc |-> "loop", duration |-> duration,
     numBatches |-> ceilDiv(duration, chunkSizeMinutes),
     i |-> IF which = "svc" THEN 1 ELSE 0,
     fullScript |-> <<>>, previousContext |-> <<>>, result |-> NoResult,
     log |-> <<>>]

\* the caller asks for a script; no speech run has started
InitPrayer ==
    /\ impl \in {"svc", "part"}
    /\ prayer \in {Asked(impl, d) : d \in Durations}
    /\ blocks = <<>>
    /\ speakers = <<>>
    /\ multiSpeakerConfig = Undefined
    /\ parser = Idle
    /\ fileHandle = FALSE
    /\ pc = "idle"
    /\ i = 0
    /\ processedBlocks = 0
    /\ totalSize = 0
    /\ writable = FALSE
    /\ sink = [state |-> "unopened", cursor |-> 0, header |-> NoHeader, len |-> 0]
    /\ pending = 0
    /\ chunksSeen = 0
    /\ inflight = {}
    /\ log = <<>>

speechIdle ==
    <<impl, blocks, speakers, multiSpeakerConfig, parser, fileHandle, pc, i,
      processedBlocks, totalSize, writable, sink, pending, chunksSeen,
      inflight, log>>

Noted(e, batch, val) == Append(prayer.log, Ev(e, batch, val))

\* svc 114-159: the loop test passes, the prompt is built with the context
\* of the previous batch, generateContent is called and awaited
SvcPrayerRequest ==
    /\ impl = "svc" /\ prayer.pc = "loop"
    /\ prayer.i <= prayer.numBatches
    /\ prayer' = [prayer EXCEPT
                    !.pc = "await",
                    !.log = Noted("request", prayer.i, prayer.previousContext)]
    /\ UNCHANGED speechIdle

\* svc 161-170: the response arrives; its text is appended, the context is
\* kept, and between batches the delay of one second starts
SvcPrayerResponse ==
    /\ impl = "svc" /\ prayer.pc = "await"
    /\ \E text \in Replies :
         prayer' = [prayer EXCEPT
                      !.pc = IF prayer.i < prayer.numBatches
                             THEN "delay" ELSE "loop",
                      !.i = IF prayer.i < prayer.numBatches THEN @ ELSE @ + 1,
                      !.fullScript = @ \o text \o <<"\n", "\n">>,
                      !.previousContext = contextOf(text),
                      !.log = Noted("response", prayer.i, text)]
    /\ UNCHANGED speechIdle

\* svc 170 and 114: the delay elapses, i++
SvcPrayerDelay ==
    /\ impl = "svc" /\ prayer.pc = "delay"
    /\ prayer' = [prayer EXCEPT !.pc = "loop", !.i = @ + 1]
    /\ UNCHANGED speechIdle

\* svc 172-179: generateContent rejects; batch 1 rethrows, a later batch
\* breaks out of the loop and the script so far is returned
SvcPrayerFail ==
    /\ impl = "svc" /\ prayer.pc = "await"
    /\ prayer' = [prayer EXCEPT
                    !.pc = IF prayer.i = 1 THEN "thrown" ELSE "returned",
                    !.result = IF prayer.i = 1
                               THEN [kind |-> "error", value |-> <<>>]
                               ELSE [kind |-> "value",
                                     value |-> prayer.fullScript],
                    !.log = Noted("error", prayer.i, <<>>)]
    /\ UNCHANGED speechIdle

\* svc 114 and 179: the loop test fails, return fullScript
SvcPrayerReturn ==
    /\ impl = "svc" /\ prayer.pc = "loop"
    /\ prayer.i > prayer.numBatches
    /\ prayer' = [prayer EXCEPT
                    !.pc = "returned",
                    !.result = [kind |-> "value", value |-> prayer.fullScript]]
    /\ UNCHANGED speechIdle

SvcPrayerNext ==
    \/ SvcPrayerRequest
    \/ SvcPrayerResponse
    \/ SvcPrayerDelay
    \/ SvcPrayerFail
    \/ SvcPrayerReturn

\* part 36-71: the loop test passes, the prompt is built (after the first
\* block with the last 300 characters of the previous one), generateContent
\* is called and awaited
PartPrayerRequest ==
    /\ impl = "part" /\ prayer.pc = "loop"
    /\ prayer.i < prayer.numBatches
    /\ prayer' = [prayer EXCEPT
                    !.pc = "await",
                    !.log = Noted("request", prayer.i + 1,
                                  IF prayer.i = 0 THEN <<>>
                                  ELSE lastChars(prayer.previousContext, 300))]
    /\ UNCHANGED speechIdle

\* part 73-75 and 36: the response arrives; its text is appended and kept
\* as context, i++
PartPrayerResponse ==
    /\ impl = "part" /\ prayer.pc = "await"
    /\ \E text \in Replies :
         prayer' = [prayer EXCEPT
                      !.pc = "loop",
                      !.i = @ + 1,
                      !.fullScript = @ \o text \o <<"\n", "\n">>,
                      !.previousContext = text,
                      !.log = Noted("response", prayer.i + 1, text)]
    /\ UNCHANGED speechIdle

\* part 76-83: generateContent rejects; whichever block it is, the loop is
\* left and the prayer so far is returned
PartPrayerFail ==
    /\ impl = "part" /\ prayer.pc = "await"
    /\ prayer' = [prayer EXCEPT
                    !.pc = "returned",
                    !.result = [kind |-> "value", value |-> prayer.fullScript],
                    !.log = Noted("error", prayer.i + 1, <<>>)]
    /\ UNCHANGED speechIdle

\* part 36 and 83: the loop test fails, return fullPrayer
PartPrayerReturn ==
    /\ impl = "part" /\ prayer.pc = "loop"
    /\ prayer.i >= prayer.numBatches
    /\ prayer' = [prayer EXCEPT
                    !.pc = "returned",
                    !.result = [kind |-> "value", value |-> prayer.fullScript]]
    /\ UNCHANGED speechIdle

PartPrayerNext ==
    \/ PartPrayerRequest
    \/ PartPrayerResponse
    \/ PartPrayerFail
    \/ PartPrayerReturn

PrayerNext == SvcPrayerNext \/ PartPrayerNext

PrayerSpec == InitPrayer /\ [][PrayerNext]_vars

\* ============================================================ observations
Events(kind) == {p \in 1..Len(log) : log[p].e = kind}
Count(kind) == Cardinality(Events(kind))
EventsOf(kind, j) == {p \in Events(kind) : log[p].seg = j}

Segs == 0..(Len(blocks) - 1)

\* the stage-direction strip of the implementation that runs
Clean(t) == IF impl = "svc" THEN cleanedText(t) ELSE cleanTextForSpeech(t)

\* block j is not skipped as blank
Spoken(j) == ~IsBlank(Clean(blocks[j + 1]))

\* the run has ended: no step of generateSpeech is left
Stopped == ~ENABLED Next

LastIs(kind) == Len(log) > 0 /\ log[Len(log)].e = kind

RECURSIVE SumWrites(_)
SumWrites(n) ==
    IF n = 0 THEN 0
    ELSE SumWrites(n - 1) + (IF log[n].e = "write" THEN log[n].val ELSE 0)

\* bytes the successful sink writes of audio payloads carried
WrittenBytes == SumWrites(Len(log))

\* the requests are issued in block order, one per block at most
RequestsInOrder ==
    \A p, q \in Events("request") : p < q => log[p].seg < log[q].seg

\* ------------------------------------------------------------------- C1
\* C1: in svc, a synthesis failure of one segment is handled locally: onError
\* is reported for it, every later non-blank segment is still requested and
\* the run ends with onComplete.
C1_SvcSegmentFailureIsLocal ==
    (impl = "svc" /\ Stopped) =>
        \A p \in Events("synthFail") :
            /\ \E q \in EventsOf("onError", log[p].seg) : q > p
            /\ \A j \in Segs :
                 (j > log[p].seg /\ Spoken(j)) => EventsOf("request", j) # {}
            /\ LastIs("onComplete")

C3_SvcOneTerminalReport ==
    impl = "svc" =>
        /\ Count("onComplete") + Count("onError") <= 1
        /\ \A p \in Events("onComplete") \cup Events("onError") : p = Len(log)
        /\ Stopped => Count("onComplete") + Count("onError") = 1
        /\ Stopped <=> pc = "done"

C3_Witness ==
    /\ impl = "svc" /\ pc = "done"
    /\ LastIs("onError")
    /\ Count("onProgress") > 0
    /\ Count("write") > 0
    /\ Count("onComplete") = 0

\* ------------------------------------------------------------------- C4
\* C4: a run that reaches onComplete has reported onProgress exactly once
\* for every segment, blank ones included.
C4_ProgressOncePerSegment ==
    (pc = "done" /\ LastIs("onComplete")) =>
        /\ \A j \in Segs : Cardinality(EventsOf("onProgress", j)) = 1
        /\ Count("onProgress") = Len(blocks)

\* ------------------------------------------------------------------- C5
\* C5: on a run over at least one segment that reaches onComplete, the last
\* value passed to onProgress is 100.
C5_ProgressEndsAt100 ==
    (pc = "done" /\ LastIs("onComplete") /\ Len(blocks) >= 1) =>
        /\ Events("onProgress") # {}
        /\ \E p \in Events("onProgress") :
             /\ \A q \in Events("onProgress") : q <= p
             /\ log[p].val = 100

\* ------------------------------------------------------------------- C6
\* C6: every value passed to onProgress is an integer in 0..100 and the
\* values of one run never decrease.
C6_ProgressMonotone ==
    /\ \A p \in Events("onProgress") : log[p].val \in 0..100
    /\ \A p, q \in Events("onProgress") : p < q => log[p].val <= log[q].val

C6_Witness ==
    /\ Stopped
    /\ Count("onProgress") >= 2
    /\ \E p, q \in Events("onProgress") : log[p].val < log[q].val

\* ------------------------------------------------------------------- C7
\* C7 as claimed: in svc with a sink, after a run that ends with onComplete
\* the payload size in the header equals the audio bytes written after it.
C7_HeaderMatchesPayload ==
    (impl = "svc" /\ fileHandle /\ pc = "done" /\ LastIs("onComplete")) =>
        /\ sink.header.payload = sink.len - HeaderLen
        /\ sink.header.payload = WrittenBytes

\* C7 as amended: the same, for the runs whose final header rewrite (the
\* seek to 0 and the header write) did not throw.
C7_HeaderMatchesPayloadWhenRewritten ==
    (/\ impl = "svc" /\ fileHandle /\ pc = "done" /\ LastIs("onComplete")
     /\ Count("headerFail") = 0) =>
        /\ sink.header = createWavHeader(sink.len - HeaderLen, 1, 24000, 16)
        /\ sink.header.payload = WrittenBytes
        /\ sink.header.payload = totalSize

C7_Witness ==
    /\ impl = "svc" /\ fileHandle /\ pc = "done" /\ LastIs("onComplete")
    /\ Count("headerFail") = 0
    /\ Count("write") >= 2
    /\ sink.header.payload = 3

C9_RequestsSequential ==
    /\ RequestsInOrder
    /\ Cardinality(inflight) <= 1
    /\ pc = "request" => (inflight = {} /\ pending = 0)
    /\ \A q \in Events("request") : \A p \in Events("audio") :
         p < q => /\ log[p].seg < log[q].seg
                  /\ log[p + 1].e \in {"write", "onChunk", "writeFail"}
                  /\ log[p + 1].seg = log[p].seg
                  /\ log[p + 1].val = log[p].val
                  /\ p + 1 < q

C9_Witness ==
    /\ Stopped
    /\ Count("request") = 2
    /\ EventsOf("write", 0) # {}
    /\ EventsOf("audio", 1) # {}

\* ------------------------------------------------------------------ C10
\* C10: onChunk is invoked only when no file handle was supplied; with a
\* file handle every decoded payload goes to a sink write and to nothing
\* else, and the sink holds exactly the bytes of the writes that returned.
C10_ChunkOnlyWithoutSink ==
    /\ Count("onChunk") > 0 => ~fileHandle
    /\ fileHandle =>
         /\ \A p \in Events("audio") :
              \/ p = Len(log) /\ pc = "write" /\ pending = log[p].val
              \/ p < Len(log) /\ log[p + 1].e \in {"write", "writeFail"}
                              /\ log[p + 1].seg = log[p].seg
                              /\ log[p + 1].val = log[p].val
         /\ Count("write") + Count("writeFail") <= Count("audio")
         /\ sink.len = WrittenBytes
                         + (IF sink.header # NoHeader THEN HeaderLen ELSE 0)
    /\ ~fileHandle =>
         /\ Count("write") = 0
         /\ \A p \in Events("audio") :
              /\ p < Len(log)
              /\ log[p + 1] = Ev("onChunk", log[p].seg, log[p].val)

C10_Witness ==
    /\ fileHandle /\ Stopped
    /\ Count("audio") = 2
    /\ Count("write") = 2
    /\ Count("onChunk") = 0

\* ------------------------------------------------------------------ C11
\* C11: in svc, once opening the sink has failed (createWritable or the
\* placeholder header write threw), no synthesis request is ever issued,
\* neither onProgress nor onComplete is called, the failure is followed at
\* once by the catch, and the run ends with onError as its single report.
C11_SvcOpenFailureIsFatal ==
    (impl = "svc" /\ Count("openFail") > 0) =>
        /\ Count("openFail") = 1
        /\ Count("request") = 0
        /\ Count("audio") = 0
        /\ Count("onProgress") = 0
        /\ Count("onComplete") = 0
        /\ \A p \in Events("openFail") :
             \/ p = Len(log) /\ pc = "catch"
             \/ p < Len(log) /\ log[p + 1].e = "onError"
        /\ Stopped => LastIs("onError") /\ Count("onError") = 1

C11_Witness ==
    /\ impl = "svc" /\ pc = "done"
    /\ writable
    /\ Count("openFail") = 1
    /\ LastIs("onError")
    /\ \E j \in Segs : Spoken(j)

\* ------------------------------------------------------------------ C17
\* segment j was requested and answered, and the answer carried no audio
NoAudio(j) ==
    /\ EventsOf("request", j) # {}
    /\ EventsOf("onProgress", j) # {}
    /\ EventsOf("audio", j) = {}

\* C17: in both implementations, when the synthesis call of a segment
\* returns without any audio payload, the run has reported that segment
\* through onError by the time it ends, and it went on to the end of the
\* segment list.
C17_MissingAudioIsReported ==
    Stopped =>
        \A j \in Segs : NoAudio(j) =>
            /\ EventsOf("onError", j) # {}
            /\ i = Len(blocks)

\* ------------------------------------------------------------------ C20
\* C20: in both implementations, between any two consecutive synthesis
\* requests the inter-request delay has been awaited to its end, whether
\* the earlier request succeeded or failed.
C20_DelayBetweenRequests ==
    \A p, q \in Events("request") :
        (p < q /\ \A r \in Events("request") : ~(p < r /\ r < q)) =>
            \E d \in Events("delay") : p < d /\ d < q

\* ------------------------------------------------------------------ C19
\* the run has reached onComplete
Completed == pc = "done" /\ LastIs("onComplete")

\* every audio byte is written after the placeholder header, and a header
\* written later is written right after the one seek(0), after every audio
\* byte
HeaderOrder ==
    /\ Count("header") <= 2
    /\ Count("seek") <= 1
    /\ \A w \in Events("write") : w > 1 /\ log[1] = Ev("header", -1, 0)
    /\ \A h \in Events("header") :
         h > 1 => /\ log[h - 1].e = "seek"
                  /\ \A w \in Events("write") : w < h
                  /\ sink.cursor = HeaderLen

\* the cursor of the sink moves back only in the seek(0) of the finalization
CursorRewindsOnlyAtSeek ==
    (impl = "svc" /\ sink'.cursor < sink.cursor) =>
        /\ pc = "seek" /\ pc' = "header"
        /\ sink'.cursor = 0
        /\ Count("seek") = 0

\* C19 as stated: in svc with a sink, every completed run has written the
\* header exactly twice, the placeholder before any audio byte and the
\* final header after the last one, with one seek(0) before the final
\* header as the only cursor rewind.
C19_HeaderWrittenTwice ==
    (impl = "svc" /\ fileHandle) =>
        /\ HeaderOrder
        /\ Completed => Count("header") = 2 /\ Count("seek") = 1

\* C19, amended: the header is written twice on the completed runs whose
\* finalization did not throw; when the seek or the final header write
\* throws, the run still completes and the header was written once, as the
\* placeholder.  In every run the placeholder precedes every audio byte,
\* a final header follows the last audio byte right after the one seek(0),
\* and the cursor moves back at no other step.
C19_HeaderWrittenTwiceWhenRewritten ==
    /\ [](impl = "svc" /\ fileHandle =>
            /\ HeaderOrder
            /\ Completed => /\ Count("headerFail") <= 1
                            /\ Count("header") = 2 - Count("headerFail")
                            /\ Count("header") = 2 => Count("seek") = 1)
    /\ [][CursorRewindsOnlyAtSeek]_vars

C19_Witness ==
    /\ impl = "svc" /\ fileHandle /\ Completed
    /\ Count("header") = 2
    /\ Count("write") = 2
    /\ sink.cursor = HeaderLen
    /\ sink.len = HeaderLen + totalSize

\* ------------------------------------------------------------------ C18
\* C18: in both implementations, once the caller has closed the sink no
\* write to it succeeds, and from the first write that fails on no
\* synthesis request is issued and onComplete is not called: the run ends
\* with onError.
C18_CallerCloseIsFatal ==
    \A c \in Events("callerClose") :
        /\ \A w \in Events("write") \cup Events("header") : w < c
        /\ \A w \in Events("writeFail") :
             w > c => /\ \A r \in Events("request") : r < w
                      /\ Count("onComplete") = 0
                      /\ pc = "done" => LastIs("onError")

\* ------------------------------------------------------------------ C15
\* C15: in svc every synthesis request carries the voice 'Aoede' when the
\* speaker of its segment contains "roberta" in any letter case, otherwise
\* 'Enceladus' when it contains "milton", whatever the caller's map holds;
\* for any other speaker it carries the voice of the first entry of the
\* map named exactly as the speaker, and 'Kore' when there is no map or no
\* such entry.
C15_VoicePrecedence ==
    impl = "svc" =>
        \A p \in Events("request") :
            LET speaker == speakers[log[p].seg + 1]
                isRoberta == includes(toLowerCase(speaker), roberta)
                isMilton == includes(toLowerCase(speaker), milton)
                named == {k \in 1..Len(multiSpeakerConfig.speakers) :
                             multiSpeakerConfig.speakers[k].name = speaker}
            IN  /\ isRoberta => log[p].val = "Aoede"
                /\ (~isRoberta /\ isMilton) => log[p].val = "Enceladus"
                /\ (~isRoberta /\ ~isMilton /\ named = {}) =>
                       log[p].val = "Kore"
                /\ (~isRoberta /\ ~isMilton /\ named # {}) =>
                       /\ multiSpeakerConfig.defined
                       /\ log[p].val =
                            multiSpeakerConfig.speakers[Least(named)].voice

C15_Witness ==
    /\ impl = "svc" /\ pc = "done"
    /\ speakers = <<RobertaErickson>>
    /\ \E k \in 1..Len(multiSpeakerConfig.speakers) :
         /\ multiSpeakerConfig.speakers[k].name = RobertaErickson
         /\ multiSpeakerConfig.speakers[k].voice = "Puck"
    /\ \E p \in Events("request") : log[p].val = "Aoede"
    /\ LastIs("onComplete")

\* ============================================== claims about the svc parse
\* parseDialogueIntoChunks has returned to generateSpeech
Returned == parser # Idle /\ pc = "start"

\* the texts of ss, from the k-th on, one after another
RECURSIVE Joined(_, _)
Joined(ss, k) == IF k > Len(ss) THEN <<>> ELSE ss[k] \o Joined(ss, k + 1)

\* t without its whitespace
Squeezed(t) == SelectSeq(t, LAMBDA c : c \notin WS)

\* what a line says once its speaker prefix, if it has one, is taken off
Said(line) ==
    IF speakerRegex(line).ok THEN speakerRegex(line).text ELSE line

\* the content of a script: what its lines say, in order; the whole script
\* when no line says anything (the Narrator fallback)
Content(t) ==
    LET said == [k \in 1..Len(split(t)) |-> Said(split(t)[k])]
    IN  IF \A k \in 1..Len(said) : trim(said[k]) = <<>>
        THEN t
        ELSE Joined(said, 1)

\* ------------------------------------------------------------------ C12
\* C12: every segment the svc parse returns has at most MAX_CHAR_LIMIT
\* characters of text, unless its text is one sentence-like unit (one match
\* of the sentence pattern covering it).
C12_SegmentsWithinLimit ==
    Returned =>
        \A k \in 1..Len(blocks) :
            \/ Len(blocks[k]) <= MAX_CHAR_LIMIT
            \/ sentences(blocks[k]) = <<blocks[k]>>

C12_Witness ==
    /\ Returned
    /\ Len(blocks) = 2
    /\ Len(blocks[1]) > MAX_CHAR_LIMIT \div 2
    /\ Len(blocks[1]) <= MAX_CHAR_LIMIT
    /\ Len(sentences(blocks[1])) = 2
    /\ Len(blocks[1]) + Len(blocks[2]) > MAX_CHAR_LIMIT

\* ------------------------------------------------------------------ C13
\* C13: the texts of the segments the svc parse returns, read one after
\* another with whitespace left out, are the content of the script with
\* whitespace left out: no character is lost and none is moved.
C13_NothingLost ==
    Returned => Squeezed(Joined(blocks, 1)) = Squeezed(Content(parser.text))

\* ------------------------------------------------------------------ C14
\* C14: every segment the svc parse returns has a speaker and a text that
\* are not empty once trimmed.
C14_SegmentsNotEmpty ==
    Returned =>
        \A k \in 1..Len(blocks) :
            /\ trim(speakers[k]) # <<>>
            /\ trim(blocks[k]) # <<>>

\* ------------------------------------------------------------------ C16
Peace ==
    <<"P", "e", "a", "c", "e", " ", "b", "e", " ", "w", "i", "t", "h", " ",
      "y", "o", "u", ".">>

\* C16: for the script "(softly) Roberta Erickson: Peace be with you." the
\* svc run has one segment, of speaker Roberta Erickson, asks for the text
\* without the stage direction and asks with the voice 'Aoede'; and the
\* script whose first line is "[Pause] Milton: Rest." has that line as a
\* segment of Milton Dilts.
C16_DirectionBeforeSpeaker ==
    (impl = "svc" /\ parser # Idle /\ pc # "parse") =>
        /\ parser.text = TSoftly =>
             /\ speakers = <<RobertaErickson>>
             /\ cleanedText(blocks[1]) = Peace
             /\ \A p \in Events("request") : log[p].val = "Aoede"
        /\ parser.text = TPause => speakers[1] = MiltonDilts

\* ------------------------------------------------------------------ C22
\* C22: in part every synthesis request for a segment of Roberta Erickson
\* carries the voice 'Aoede' and every request for a segment of Milton
\* Dilts carries 'Enceladus', with or without a speaker map and whatever
\* the map holds.
C22_PartCanonicalVoices ==
    impl = "part" =>
        \A p \in Events("request") :
            /\ speakers[log[p].seg + 1] = RobertaErickson =>
                 log[p].val = "Aoede"
            /\ speakers[log[p].seg + 1] = MiltonDilts =>
                 log[p].val = "Enceladus"

\* ------------------------------------------------------------------ C24
\* C24: an svc run that opened the sink and has ended has closed the sink
\* exactly once, also when it ended with onError.
C24_SvcSinkClosedOnce ==
    (impl = "svc" /\ writable /\ Stopped) =>
        /\ Count("close") = 1
        /\ sink.state = "closed"

\* ------------------------------------------------------------------ C25
\* the speaker prefix of a line that matches the speaker pattern: the line
\* up to its colon
Prefix(line) == SubSeq(line, 1, FirstIn(line, 1, {":"}))

\* C25: the svc parse takes the Narrator fallback only for a script none
\* of whose lines matches the speaker pattern; when a line matches, no
\* returned segment of Narrator has a text that contains the speaker
\* prefix of that line.
C25_FallbackOnlyWithoutSpeakers ==
    (impl = "svc" /\ Returned) =>
        LET lines == split(parser.text)
            matched == {k \in 1..Len(lines) : speakerRegex(lines[k]).ok}
        IN  /\ parser.fallback => matched = {}
            /\ \A k \in matched : \A b \in 1..Len(blocks) :
                 speakers[b] = Narrator =>
                     ~includes(blocks[b], Prefix(lines[k]))

\* ------------------------------------------------------------------ C21
\* C21: every chunk the part parse returns has at most MAX_CHARS characters
\* of text, unless its text is one sentence-like unit (one match of the
\* sentence pattern covering it); a chunk joined from several units never
\* exceeds MAX_CHARS.
C21_PartChunksWithinLimit ==
    (impl = "part" /\ Returned) =>
        \A k \in 1..Len(blocks) :
            \/ Len(blocks[k]) <= MAX_CHARS
            \/ partSentences(blocks[k]) = <<blocks[k]>>

\* ------------------------------------------------------------------ C23
PrayerEvents(kind) ==
    {p \in 1..Len(prayer.log) : prayer.log[p].e = kind}

\* the texts of the responses among the first n entries of the log, each
\* followed by the blank line, in the order they arrived
RECURSIVE Replied(_)
Replied(n) ==
    IF n = 0 THEN <<>>
    ELSE IF prayer.log[n].e = "response"
    THEN Replied(n - 1) \o prayer.log[n].val \o <<"\n", "\n">>
    ELSE Replied(n - 1)

\* a batch is requested only after the response of the batch before it
BatchesOneAfterAnother ==
    \A q \in PrayerEvents("request") :
        /\ prayer.log[q].seg = Cardinality({p \in PrayerEvents("request") : p < q}) + 1
        /\ \A p \in PrayerEvents("request") :
               p < q =>
                   \E r \in (p + 1)..(q - 1) :
                       /\ prayer.log[r].e = "response"
                       /\ prayer.log[r].seg = prayer.log[p].seg

FirstBatchFailed ==
    \E p \in PrayerEvents("error") : prayer.log[p].seg = 1

LaterBatchFailed ==
    \E p \in PrayerEvents("error") : prayer.log[p].seg > 1

\* C23: in both implementations the batches are requested strictly one after
\* another; when the request of the first batch fails the call rejects with
\* the error and yields no script; when the request of a later batch fails
\* no further batch is requested and the call returns the texts of the
\* batches before it, in batch order.
C23_BatchesInOrderFirstFailurePropagated ==
    /\ BatchesOneAfterAnother
    /\ FirstBatchFailed => prayer.result.kind = "error"
    /\ LaterBatchFailed =>
           /\ \A p \in PrayerEvents("error") :
                  \A q \in PrayerEvents("request") : q < p
           /\ prayer.result = [kind |-> "value",
                               value |-> Replied(Len(prayer.log))]

====
